---- MODULE Spec2Model ----
(***************************************************************************)
(* A model of two parts of the metrics crates:                             *)
(*                                                                         *)
(*  - the global recorder slot of metrics/src/recorder.rs                  *)
(*    (RecorderVariant, RecorderOnceCell, set_recorder,                    *)
(*    set_boxed_recorder, try_recorder, recorder), and                     *)
(*  - the DebuggingRecorder / Snapshotter of                               *)
(*    metrics-util/src/debugging.rs.                                       *)
(*                                                                         *)
(* Each thread is a small program counter machine; one action is one       *)
(* atomic step of the code (an atomic memory operation, a lock operation,  *)
(* or a run of thread-local statements).                                   *)
(***************************************************************************)
EXTENDS Integers, Sequences, FiniteSets, TLC

(***************************************************************************)
(* Bounds of the model.                                                    *)
(***************************************************************************)
\* number of threads using the global recorder slot
NumThreads == 2
\* number of calls those threads make in all
MaxCalls == 4

\* number of threads using one DebuggingRecorder and its Snapshotters
NumDebugThreads == 2
\* number of describe_* calls made in all, when counters are updated
MaxDescribes == 2
\* number of describe_* calls made in all, when no metric is updated
MetaDescribes == 1
\* number of updates (increment, set, record) made through handles in all
MaxUpdates == 4
\* number of snapshot() calls made in all
MaxSnapshots == 1
\* number of Gauge::set calls made in all
GaugeUpdates == 2
\* number of updates made through racing register_* calls' handles
RaceUpdates == 3
\* number of samples recorded in histograms in all
HistUpdates == 3
\* number of snapshot() calls made in all, when histograms are drained
HistSnapshots == 2

(***************************************************************************)
(* Program constants of recorder.rs.                                       *)
(***************************************************************************)
UNINITIALIZED == 0
INITIALIZING == 1
INITIALIZED == 2
\* the shared NoopRecorder `static NOOP` of recorder(); recorders are
\* identified by numbers and 0 is kept for NOOP
NOOP == 0

Threads == 1..NumThreads

\* recorders that exist for the whole program (`&'static dyn Recorder`)
StaticRecorders == {1}

\* the Box<dyn Recorder> allocated for the k-th install attempt
BoxId(k) == 1 + k

BoxedRecorders == {BoxId(k) : k \in 1..MaxCalls}

Recorders == StaticRecorders \cup BoxedRecorders

\* Option<&'static dyn Recorder>: None is <<>>, Some(r) is <<r>>
None == <<>>
Some(r) == <<r>>

Max(a, b) == IF a >= b THEN a ELSE b

VARIABLES
    state,      \* RecorderOnceCell.state, the AtomicUsize
    stateRel,   \* the writes of the cell made visible by an Acquire read of
                \* `state` (what the last Release store published)
    cellHist,   \* the writes made to RecorderOnceCell.recorder, oldest first
    view,       \* per thread: the latest write of the cell that happens
                \* before the thread's next step
    thr,        \* per thread: position in the call it is executing
    dropCount,  \* per recorder: number of times its destructor has run
    calls,      \* number of calls begun so far
    begun,      \* number of install attempts begun so far
    okCount,    \* number of install attempts that returned Ok
    errCount,   \* number of install attempts that returned Err
    installed,  \* the recorder of an install attempt that has returned Ok
    casWinner,  \* the recorder of the attempt that won the compare_exchange
    seqRun,     \* no two install attempts have overlapped so far
    epoch       \* the clear_recorder() calls so far: their number n, and at
                \* the last one the recorder that was installed (prev) and
                \* the number of install attempts begun (begun)

slotVars == <<state, stateRel, cellHist, view, thr, dropCount, calls, begun,
              okCount, errCount, installed, casWinner, seqRun, epoch>>

(***************************************************************************)
(* State of a DebuggingRecorder and of the threads using it.               *)
(***************************************************************************)
VARIABLES
    kinds,        \* the MetricKinds the threads use
    limits,       \* the numbers of describe_*, update and snapshot() calls
                  \* the threads make in all
    registry,     \* DebuggingRecorder.registry: per kind, the handles by Key
    metrics,      \* DebuggingRecorder.metrics: the IndexMap, in insertion
                  \* order, of [ck, unit, desc]
    metricsLock,  \* the thread holding the Mutex of `metrics`, 0 when free
    dthr,         \* per thread: position in the call it is executing
    incs,         \* per thread and Key: increments of the counter completed
    descLog,      \* the describe_* calls in the order they updated `metrics`
    nDescribe,    \* number of describe_* calls begun
    nUpdate,      \* number of updates made
    nSnapshot,    \* number of snapshot() calls begun
    conc          \* threads whose snapshot() overlapped another thread's step

debugVars == <<kinds, limits, registry, metrics, metricsLock, dthr, incs, descLog,
               nDescribe, nUpdate, nSnapshot, conc>>

(***************************************************************************)
(* The history of the run, kept for the properties: it records what the    *)
(* program did and never influences it.                                    *)
(***************************************************************************)
VARIABLES
    appLog,       \* the samples recorded in histograms, in the order of the
                  \* appends: [key, x, described]
    bufIds,       \* per Key: the positions in appLog of the samples the
                  \* histogram's buffer holds, in the buffer's order
    snapLog,      \* the snapshot() calls in the order they started: [t,
                  \* apps, meta, gauges, ids, done, quiet, result]
    orderly       \* every describe_* call so far started when its key was
                  \* registered

histVars == <<appLog, bufIds, snapLog, orderly>>

(***************************************************************************)
(* Registry::get_or_create_<kind> step by step, with the handles told      *)
(* apart: handle number i is the i-th handle constructed.                  *)
(***************************************************************************)
VARIABLES
    regIds,       \* the Registry's map: per composite key the handle it
                  \* holds, 0 when it has no entry
    cells,        \* per handle constructed: the updates it has received
    held,         \* per thread: the handle get_or_create returned to it, 0
                  \* when it holds none
    raced         \* some call found no entry and then, at its insert, an
                  \* entry made by another call

raceVars == <<regIds, cells, held, raced>>

vars == <<slotVars, debugVars, histVars, raceVars>>

(***************************************************************************)
(* RecorderVariant (recorder.rs 23-54).                                    *)
(***************************************************************************)
NoVariant == [kind |-> "None", rec |-> NOOP]

\* RecorderVariant::from_static
from_static(r) == [kind |-> "Static", rec |-> r]

\* RecorderVariant::from_boxed: Box::leak turns the box into a reference
\* without running the destructor
from_boxed(r) == [kind |-> "Boxed", rec |-> r]

\* impl Drop for RecorderVariant: the destructor counts after a variant
\* `v` has been dropped, given the counts `dc` before
DropLeaks(v, dc) == dc

DropVariant(v, dc) ==
    IF v.kind = "Boxed" THEN [dc EXCEPT ![v.rec] = @ + 1] ELSE dc

\* RecorderVariant::into_recorder_ref: the reference the match copies out
\* of `self`
into_recorder_ref(v) == v.rec

(***************************************************************************)
(* The initial state: `static RECORDER: RecorderOnceCell =                 *)
(* RecorderOnceCell::new()`, no thread inside a call.                      *)
(***************************************************************************)
IdleThread ==
    [pc |-> "idle", op |-> "none", variant |-> NoVariant, ret |-> "-",
     obs |-> UNINITIALIZED, opt |-> None, val |-> NOOP,
     atStart |-> None, quiet |-> FALSE, ord |-> 0]

SlotInit ==
    /\ state = UNINITIALIZED
    /\ stateRel = 1
    /\ cellHist = <<None>>
    /\ view = [t \in Threads |-> 1]
    /\ thr = [t \in Threads |-> IdleThread]
    /\ dropCount = [r \in Recorders |-> 0]
    /\ calls = 0
    /\ begun = 0
    /\ okCount = 0
    /\ errCount = 0
    /\ installed = None
    /\ casWinner = None
    /\ seqRun = TRUE
    /\ epoch = [n |-> 0, prev |-> None, begun |-> 0]

InstallPcs == {"cas", "into_ref", "write", "store", "fail_drop"}

Installing(t) == thr[t].pc \in InstallPcs

CanBegin(t) == thr[t].pc = "idle" /\ calls < MaxCalls

\* the bookkeeping common to the start of an install attempt with variant v
BeginInstall(t, v) ==
    /\ CanBegin(t)
    /\ thr' = [thr EXCEPT ![t] =
                  [IdleThread EXCEPT !.pc = "cas", !.op = "set",
                                     !.variant = v, !.ord = begun + 1]]
    /\ calls' = calls + 1
    /\ begun' = begun + 1
    /\ seqRun' = (seqRun /\ \A u \in Threads \ {t} : ~Installing(u))
    /\ UNCHANGED <<state, stateRel, cellHist, view, dropCount, okCount,
                   errCount, installed, casWinner>>

\* set_recorder(recorder): RECORDER.set(RecorderVariant::from_static(..))
SetRecorder(t) ==
    \E r \in StaticRecorders : BeginInstall(t, from_static(r))

\* set_boxed_recorder(recorder): RECORDER.set(RecorderVariant::from_boxed(..))
\* with a box of the caller's own
SetBoxedRecorder(t) ==
    BeginInstall(t, from_boxed(BoxId(begun + 1)))

(***************************************************************************)
(* RecorderOnceCell::set (recorder.rs 68-90), one action per step.         *)
(***************************************************************************)
\* state.swap(INITIALIZING) in place of the compare_exchange: the state is
\* written whatever it was
SetCasSwap(t) ==
    /\ thr[t].pc = "cas"
    /\ state' = INITIALIZING
    /\ IF state = UNINITIALIZED
       THEN /\ view' = [view EXCEPT ![t] = Max(@, stateRel)]
            /\ thr' = [thr EXCEPT ![t].pc = "into_ref",
                                  ![t].obs = state]
            /\ casWinner' = Some(thr[t].variant.rec)
       ELSE /\ UNCHANGED <<view, casWinner>>
            /\ thr' = [thr EXCEPT ![t].pc = "fail_drop", ![t].obs = state]
    /\ UNCHANGED <<stateRel, cellHist, dropCount, calls, begun, okCount,
                   errCount, installed, seqRun>>

\* a compare_exchange that expects any state that is not INITIALIZING
SetCasAnyIdle(t) ==
    /\ thr[t].pc = "cas"
    /\ IF state # INITIALIZING
       THEN /\ state' = INITIALIZING
            /\ view' = [view EXCEPT ![t] = Max(@, stateRel)]
            /\ thr' = [thr EXCEPT ![t].pc = "into_ref",
                                  ![t].obs = state]
            /\ casWinner' = Some(thr[t].variant.rec)
       ELSE /\ UNCHANGED <<state, view, casWinner>>
            /\ thr' = [thr EXCEPT ![t].pc = "fail_drop", ![t].obs = state]
    /\ UNCHANGED <<stateRel, cellHist, dropCount, calls, begun, okCount,
                   errCount, installed, seqRun>>

\* state.compare_exchange(UNINITIALIZED, INITIALIZING, Acquire, Relaxed):
\* on success the read is an Acquire read and the write continues the
\* release sequence; on failure nothing is written and the read is Relaxed
SetCas(t) ==
    /\ thr[t].pc = "cas"
    /\ IF state = UNINITIALIZED
       THEN /\ state' = INITIALIZING
            /\ view' = [view EXCEPT ![t] = Max(@, stateRel)]
            /\ thr' = [thr EXCEPT ![t].pc = "into_ref",
                                  ![t].obs = state]
            /\ casWinner' = Some(thr[t].variant.rec)
       ELSE /\ UNCHANGED <<state, view, casWinner>>
            /\ thr' = [thr EXCEPT ![t].pc = "fail_drop", ![t].obs = state]
    /\ UNCHANGED <<stateRel, cellHist, dropCount, calls, begun, okCount,
                   errCount, installed, seqRun>>

\* Ok arm: variant.into_recorder_ref() takes `self` by value, copies the
\* reference out of it, and `self` goes out of scope when it returns, which
\* runs Drop for RecorderVariant
SetIntoRef(t) ==
    /\ thr[t].pc = "into_ref"
    /\ dropCount' = DropVariant(thr[t].variant, dropCount)
    /\ thr' = [thr EXCEPT ![t].pc = "write",
                          ![t].val = into_recorder_ref(thr[t].variant)]
    /\ UNCHANGED <<state, stateRel, cellHist, view, calls, begun, okCount,
                   errCount, installed, casWinner,
                   seqRun>>

\* Ok arm: self.recorder.get().write(Some(..)), a plain write
SetWrite(t) ==
    /\ thr[t].pc = "write"
    /\ cellHist' = Append(cellHist, Some(thr[t].val))
    /\ view' = [view EXCEPT ![t] = Len(cellHist')]
    /\ thr' = [thr EXCEPT ![t].pc = "store"]
    /\ UNCHANGED <<state, stateRel, dropCount, calls, begun, okCount,
                   errCount, installed, casWinner, seqRun>>

\* the bookkeeping of set returning Ok(())
ReturnOk(t) ==
    /\ thr' = [thr EXCEPT ![t].pc = "idle", ![t].ret = "Ok"]
    /\ okCount' = okCount + 1
    /\ installed' = Some(thr[t].variant.rec)
    /\ UNCHANGED <<cellHist, view, dropCount, calls, begun, errCount,
                   casWinner, seqRun>>

\* state.store(INITIALIZED, Ordering::Relaxed): publishes nothing
SetStoreRelaxed(t) ==
    /\ thr[t].pc = "store"
    /\ state' = INITIALIZED
    /\ stateRel' = 1
    /\ ReturnOk(t)

\* Ok arm: state.store(INITIALIZED, Ordering::Release); Ok(())
SetStore(t) ==
    /\ thr[t].pc = "store"
    /\ state' = INITIALIZED
    /\ stateRel' = view[t]
    /\ ReturnOk(t)

\* `_` arm: Err(SetRecorderError(())); `variant` was not moved and is
\* dropped when set returns
SetFail(t) ==
    /\ thr[t].pc = "fail_drop"
    /\ dropCount' = DropVariant(thr[t].variant, dropCount)
    /\ thr' = [thr EXCEPT ![t].pc = "idle", ![t].ret = "Err"]
    /\ errCount' = errCount + 1
    /\ UNCHANGED <<state, stateRel, cellHist, view, calls, begun, okCount,
                   installed, casWinner, seqRun>>

(***************************************************************************)
(* RecorderOnceCell::try_load (recorder.rs 104-112) behind try_recorder    *)
(* and recorder (recorder.rs 250-260).                                     *)
(***************************************************************************)
\* Option::unwrap_or
unwrap_or(opt, default) == IF opt = None THEN default ELSE opt[1]

\* what the caller of `api` gets from try_load's result `opt`: recorder()
\* is try_recorder().unwrap_or(&NOOP), try_recorder() is the option itself
ApiValue(api, opt) == IF api = "recorder" THEN unwrap_or(opt, NOOP) ELSE NOOP

\* a call of try_recorder() or of recorder() starts
Load(t) ==
    /\ CanBegin(t)
    /\ \E api \in {"try_recorder", "recorder"} :
          thr' = [thr EXCEPT ![t] =
                     [IdleThread EXCEPT !.pc = "load", !.op = api,
                                        !.atStart = installed]]
    /\ calls' = calls + 1
    /\ UNCHANGED <<state, stateRel, cellHist, view, dropCount, begun,
                   okCount, errCount, installed, casWinner, seqRun>>

\* the bookkeeping of try_load returning `opt` to the caller of thr[t].op
LoadReturn(t, observed, opt) ==
    thr' = [thr EXCEPT ![t].pc = "idle", ![t].obs = observed,
                       ![t].opt = opt,
                       ![t].val = ApiValue(thr[t].op, opt),
                       ![t].quiet = (begun = 0)]

\* a load that waits while the slot is Initializing
TryLoadStateSpin(t) ==
    /\ thr[t].pc = "load"
    /\ state # INITIALIZING
    /\ view' = [view EXCEPT ![t] = Max(@, stateRel)]
    /\ IF state # INITIALIZED
       THEN LoadReturn(t, state, None)
       ELSE thr' = [thr EXCEPT ![t].pc = "read", ![t].obs = state]
    /\ UNCHANGED <<state, stateRel, cellHist, dropCount, calls, begun, okCount,
                   errCount, installed, casWinner, seqRun>>

\* the test `state != INITIALIZED` taken for `state != UNINITIALIZED`
TryLoadStateNotUninit(t) ==
    /\ thr[t].pc = "load"
    /\ view' = [view EXCEPT ![t] = Max(@, stateRel)]
    /\ IF state = UNINITIALIZED
       THEN LoadReturn(t, state, None)
       ELSE thr' = [thr EXCEPT ![t].pc = "read", ![t].obs = state]
    /\ UNCHANGED <<state, stateRel, cellHist, dropCount, calls, begun, okCount,
                   errCount, installed, casWinner, seqRun>>

\* if self.state.load(Ordering::Acquire) != INITIALIZED { None } else ..
TryLoadState(t) ==
    /\ thr[t].pc = "load"
    /\ view' = [view EXCEPT ![t] = Max(@, stateRel)]
    /\ IF state # INITIALIZED
       THEN LoadReturn(t, state, None)
       ELSE thr' = [thr EXCEPT ![t].pc = "read", ![t].obs = state]
    /\ UNCHANGED <<state, stateRel, cellHist, dropCount, calls, begun, okCount,
                   errCount, installed, casWinner, seqRun>>

\* unsafe { self.recorder.get().read() }: a plain read, which returns a
\* write the thread's view does not rule out (the only one when the write
\* happens before the read, any of them when the read races with a write)
TryLoadRead(t) ==
    /\ thr[t].pc = "read"
    /\ \E i \in view[t]..Len(cellHist) :
          LoadReturn(t, thr[t].obs, cellHist[i])
    /\ UNCHANGED <<state, stateRel, cellHist, view, dropCount, calls, begun,
                   okCount, errCount, installed, casWinner, seqRun>>

(***************************************************************************)
(* clear_recorder and RecorderOnceCell::clear (recorder.rs 92-102,         *)
(* 214-229).                                                               *)
(***************************************************************************)
\* the thread records after thread t has called clear_recorder(): what the
\* calls that returned before it gave their callers is forgotten, and
\* from then on installed, casWinner and seqRun are about the attempts
\* that begin after the clear
AfterClear(t) ==
    [u \in Threads |->
        IF u = t THEN [IdleThread EXCEPT !.op = "clear"]
        ELSE IF thr[u].pc = "idle" THEN IdleThread ELSE thr[u]]

\* the effect of self.state.store(UNINITIALIZED, Ordering::Relaxed) made
\* by thread t: a Relaxed store publishes nothing, the cell is left as it
\* is and no destructor runs
ClearStore(t) ==
    /\ state' = UNINITIALIZED
    /\ stateRel' = 1
    /\ thr' = AfterClear(t)
    /\ calls' = calls + 1
    /\ installed' = None
    /\ casWinner' = None
    /\ seqRun' = TRUE
    /\ epoch' = [n |-> epoch.n + 1, prev |-> installed, begun |-> begun]
    /\ UNCHANGED <<cellHist, view, dropCount, begun, okCount, errCount>>

\* clear_recorder() called whatever the other threads are doing
ClearAnytime(t) ==
    /\ CanBegin(t)
    /\ ClearStore(t)

\* clear_recorder(), called as its Safety section requires: while no other
\* thread is loading the recorder or installing one
Clear(t) ==
    /\ CanBegin(t)
    /\ \A u \in Threads : thr[u].pc = "idle"
    /\ ClearStore(t)

\* what a call on the global recorder leaves alone
OtherFrame == UNCHANGED <<debugVars, histVars, raceVars>>

\* what install and load steps leave alone
SlotFrame == OtherFrame /\ UNCHANGED epoch

SlotNext ==
    \E t \in Threads :
        \/ SetRecorder(t) /\ SlotFrame
        \/ SetBoxedRecorder(t) /\ SlotFrame
        \/ SetCas(t) /\ SlotFrame
        \/ SetIntoRef(t) /\ SlotFrame
        \/ SetWrite(t) /\ SlotFrame
        \/ SetStore(t) /\ SlotFrame
        \/ SetFail(t) /\ SlotFrame
        \/ Load(t) /\ SlotFrame
        \/ TryLoadState(t) /\ SlotFrame
        \/ TryLoadRead(t) /\ SlotFrame

\* installers, loaders and callers of clear_recorder
ClearNext ==
    \E t \in Threads :
        \/ SetRecorder(t) /\ SlotFrame
        \/ SetBoxedRecorder(t) /\ SlotFrame
        \/ SetCas(t) /\ SlotFrame
        \/ SetIntoRef(t) /\ SlotFrame
        \/ SetWrite(t) /\ SlotFrame
        \/ SetStore(t) /\ SlotFrame
        \/ SetFail(t) /\ SlotFrame
        \/ Load(t) /\ SlotFrame
        \/ TryLoadState(t) /\ SlotFrame
        \/ TryLoadRead(t) /\ SlotFrame
        \/ Clear(t) /\ OtherFrame

(***************************************************************************)
(* Properties of the global recorder slot.                                 *)
(***************************************************************************)
SetDone(t) == thr[t].op = "set" /\ thr[t].pc = "idle"

LoadDone(t) == thr[t].op \in {"try_recorder", "recorder"} /\ thr[t].pc = "idle"

\* C1: on a fresh slot without clear, whatever the number and interleaving
\* of install attempts, at most one returns Ok, and once every attempt
\* begun has returned exactly one has returned Ok and all the others Err;
\* while no two attempts have overlapped, an attempt returns Ok exactly when
\* it is the first; and once an attempt has returned Ok the slot is
\* Initialized and every write of the cell a reader can see is that
\* attempt's recorder, in that state and every later one.
C1_ExactlyOneInstallSucceeds ==
    /\ okCount <= 1
    /\ (begun > 0 /\ \A t \in Threads : ~Installing(t))
          => (okCount = 1 /\ errCount = begun - 1)
    /\ \A t \in Threads :
          (SetDone(t) /\ seqRun) => (thr[t].ret = "Ok" <=> thr[t].ord = 1)
    /\ \A t \in Threads :
          (SetDone(t) /\ thr[t].ret = "Ok")
             => installed = Some(thr[t].variant.rec)
    /\ installed # None
          => /\ state = INITIALIZED
             /\ Len(cellHist) = 2
             /\ \A i \in stateRel..Len(cellHist) : cellHist[i] = installed

\* attempts overlapped and all have returned: one Ok and at least two Err
C1_Witness ==
    /\ ~seqRun
    /\ \A t \in Threads : ~Installing(t)
    /\ okCount = 1
    /\ errCount >= 2

\* C2: a boxed recorder whose install returned Ok is never destroyed: its
\* destructor has not run in any later state, so the slot's reference and
\* every reference a load returned point to a live recorder.
C2_InstalledBoxedNeverDestroyed ==
    /\ \A t \in Threads :
          (SetDone(t) /\ thr[t].ret = "Ok" /\ thr[t].variant.kind = "Boxed")
             => dropCount[thr[t].variant.rec] = 0
    /\ installed # None => dropCount[installed[1]] = 0
    /\ \A t \in Threads :
          (LoadDone(t) /\ thr[t].opt # None) => dropCount[thr[t].opt[1]] = 0

\* C3: when set returns Err for a boxed recorder, that recorder's destructor
\* has run exactly once; a recorder passed by static reference is never
\* destroyed by a failed install (its destructor never runs at all).
C3_FailedInstallDropsBoxOnce ==
    /\ \A t \in Threads :
          (SetDone(t) /\ thr[t].ret = "Err")
             => dropCount[thr[t].variant.rec] =
                   (IF thr[t].variant.kind = "Boxed" THEN 1 ELSE 0)
    /\ \A r \in StaticRecorders : dropCount[r] = 0

\* a boxed install failed against an Initialized slot and a static one
\* against an Initializing slot
C3_Witness ==
    \E t, u \in Threads :
        /\ SetDone(t) /\ thr[t].ret = "Err" /\ thr[t].obs = INITIALIZED
        /\ thr[t].variant.kind = "Boxed"
        /\ dropCount[thr[t].variant.rec] = 1
        /\ SetDone(u) /\ thr[u].ret = "Err" /\ thr[u].obs = INITIALIZING
        /\ thr[u].variant.kind = "Static"

\* C4: an install attempt whose compare_exchange finds the state
\* Initializing or Initialized writes neither the state nor the cell in any
\* of its steps, and returns Err.
C4_FailedInstallWritesNothing ==
    [][\A t \in Threads :
          /\ (thr[t].pc = "cas" /\ state # UNINITIALIZED /\ thr'[t] # thr[t])
                => /\ state' = state
                   /\ stateRel' = stateRel
                   /\ cellHist' = cellHist
                   /\ thr'[t].pc = "fail_drop"
          /\ (thr[t].pc = "fail_drop" /\ thr'[t] # thr[t])
                => /\ state' = state
                   /\ stateRel' = stateRel
                   /\ cellHist' = cellHist
                   /\ thr'[t].pc = "idle"
                   /\ thr'[t].ret = "Err"]_vars

\* one attempt has failed against an Initializing slot and another against
\* an Initialized one
C4_Witness ==
    \E t, u \in Threads :
        /\ SetDone(t) /\ thr[t].ret = "Err" /\ thr[t].obs = INITIALIZING
        /\ SetDone(u) /\ thr[u].ret = "Err" /\ thr[u].obs = INITIALIZED

\* C5: without clear, try_load returns a reference exactly when it observed
\* the state Initialized, and that reference is the recorder of the
\* installer that won the compare_exchange; having observed Uninitialized
\* or Initializing it returns None; a loader that is about to read the cell
\* has the winner's write of it in its view.
C5_LoadSeesPublishedRecorder ==
    \A t \in Threads :
        /\ LoadDone(t)
              => /\ thr[t].opt # None <=> thr[t].obs = INITIALIZED
                 /\ thr[t].opt # None => thr[t].opt = casWinner
        /\ thr[t].pc = "read"
              => /\ thr[t].obs = INITIALIZED
                 /\ view[t] = Len(cellHist)
                 /\ cellHist[view[t]] = casWinner
                 /\ casWinner # None

\* a load that started before any install had returned observed Initialized
\* and got the recorder of the compare_exchange's winner
C5_Witness ==
    \E t \in Threads :
        /\ LoadDone(t) /\ thr[t].atStart = None
        /\ thr[t].obs = INITIALIZED
        /\ thr[t].opt # None /\ thr[t].opt = casWinner

\* C6: a call of recorder() that started after an install had returned Ok
\* returns that install's recorder and try_recorder() returns Some of it; a
\* call that returned before any install began returns the NOOP recorder,
\* respectively None.
C6_RecorderAfterAndBeforeInstall ==
    \A t \in Threads :
        LoadDone(t)
           => /\ thr[t].atStart # None
                    => /\ thr[t].opt = thr[t].atStart
                       /\ thr[t].op = "recorder"
                             => thr[t].val = thr[t].atStart[1]
              /\ thr[t].quiet
                    => /\ thr[t].opt = None
                       /\ thr[t].op = "recorder" => thr[t].val = NOOP

\* one recorder() call returned NOOP before any install, another returned
\* the installed recorder after the install
C6_Witness ==
    \E t, u \in Threads :
        /\ LoadDone(t) /\ thr[t].op = "recorder" /\ thr[t].quiet
        /\ thr[t].val = NOOP
        /\ LoadDone(u) /\ thr[u].op = "recorder" /\ thr[u].atStart # None
        /\ thr[u].val = thr[u].atStart[1] /\ thr[u].val # NOOP

(***************************************************************************)
(* DebuggingRecorder and Snapshotter (metrics-util/src/debugging.rs).      *)
(***************************************************************************)
DebugThreads == 1..NumDebugThreads

\* MetricKind
Kinds == {"Counter", "Gauge", "Histogram"}

\* the Keys the threads use
Keys == {"k1"}

\* a composite key that leaves the kind out
CompositeKeyNoKind(kind, key) == <<"Counter", key>>

\* CompositeKey::new(kind, key)
CompositeKey(kind, key) == <<kind, key>>

CompositeKeys == {CompositeKey(kind, key) : kind \in Kinds, key \in Keys}

\* Option<Unit> and Option<&'static str> arguments of describe_*
Units == {None, Some("U1")}
Descriptions == {None, Some("D2")}

\* a u64 holding the bits of an f64, by its IEEE-754 fields: sign (1 bit),
\* exponent (11 bits), mantissa (52 bits)
Bits(sign, exp, mant) == [sign |-> sign, exp |-> exp, mant |-> mant]

PosZeroBits == Bits(0, 0, 0)
NegZeroBits == Bits(1, 0, 0)
NaNBits == Bits(0, 2047, 1)
PosInfBits == Bits(0, 2047, 0)
NegInfBits == Bits(1, 2047, 0)
\* a NaN with the sign bit set and a payload
NaNPayloadBits == Bits(1, 2047, 5)

\* the bit patterns the threads set gauges to
GaugeBits == {NegZeroBits, NaNBits, NaNPayloadBits, PosInfBits, NegInfBits}

\* a conversion that keeps the number a bit pattern stands for and nothing
\* else: the zeros become one zero and the NaNs one NaN
from_bits_number(b) ==
    [neg |-> b.sign = 1 /\ ~(b.exp = 0 /\ b.mant = 0)
                       /\ ~(b.exp = 2047 /\ b.mant # 0),
     class |-> IF b.exp = 2047
               THEN (IF b.mant = 0 THEN "inf" ELSE "nan")
               ELSE (IF b.exp = 0 /\ b.mant = 0 THEN "zero" ELSE "finite"),
     exp |-> b.exp,
     mant |-> IF b.exp = 2047 /\ b.mant # 0 THEN 1 ELSE b.mant]

\* f64::from_bits: the float a bit pattern stands for
from_bits(b) ==
    [neg |-> b.sign = 1,
     class |-> IF b.exp = 2047
               THEN (IF b.mant = 0 THEN "inf" ELSE "nan")
               ELSE (IF b.exp = 0 /\ b.mant = 0 THEN "zero" ELSE "finite"),
     exp |-> b.exp,
     mant |-> b.mant]

\* f64::to_bits: the bit pattern of a float
to_bits(f) == Bits(IF f.neg THEN 1 ELSE 0, f.exp, f.mant)

\* the samples the threads record in histograms
Samples == {1, 2}

\* DebugValue
DebugCounter(n) ==
    [kind |-> "Counter", n |-> n, g |-> from_bits(PosZeroBits), h |-> <<>>]
DebugGauge(f) == [kind |-> "Gauge", n |-> 0, g |-> f, h |-> <<>>]
DebugHistogram(xs) ==
    [kind |-> "Histogram", n |-> 0, g |-> from_bits(PosZeroBits), h |-> xs]

EmptyMap == [x \in {} |-> x]

\* a map with key k set to v
Insert(map, k, v) == [x \in DOMAIN map \cup {k} |-> IF x = k THEN v ELSE map[x]]

\* the position of composite key ck in the IndexMap, 0 when absent
IndexOf(m, ck) ==
    IF \E i \in 1..Len(m) : m[i].ck = ck
    THEN CHOOSE i \in 1..Len(m) : m[i].ck = ck
    ELSE 0

\* the keys of the IndexMap
MetricKeys(m) == {m[i].ck : i \in 1..Len(m)}

\* the composite keys of the handles the registry holds
RegisteredKeys(reg) ==
    {CompositeKey("Counter", k) : k \in DOMAIN reg.counters}
    \cup {CompositeKey("Gauge", k) : k \in DOMAIN reg.gauges}
    \cup {CompositeKey("Histogram", k) : k \in DOMAIN reg.histograms}

\* the sum of f[1..n]
RECURSIVE SumTo(_, _)
SumTo(f, n) == IF n = 0 THEN 0 ELSE f[n] + SumTo(f, n - 1)

\* the increments of counter `key` completed by all threads so far
TotalIncs(key) ==
    SumTo([t \in DebugThreads |-> incs[t][key]], NumDebugThreads)

DebugIdle ==
    [pc |-> "idle", op |-> "none", kind |-> "Counter", key |-> "k1",
     unit |-> None, desc |-> None, hC |-> {}, hG |-> {}, hH |-> {},
     meta |-> <<>>, idx |-> 0, snap |-> EmptyMap, metaAtStart |-> {},
     regAtStart |-> {}, incsAtStart |-> [k \in Keys |-> 0]]

\* Registry::new()
EmptyRegistry ==
    [counters |-> EmptyMap, gauges |-> EmptyMap, histograms |-> EmptyMap]

\* a DebuggingRecorder whose registry is reg and whose metadata is meta,
\* used by threads for metrics of the kinds ks in at most d describe_*
\* calls, u updates and n snapshot() calls
DebugStart(ks, d, u, n, reg, meta) ==
    /\ kinds = ks
    /\ limits = [describes |-> d, updates |-> u, snapshots |-> n]
    /\ registry = reg
    /\ metrics = meta
    /\ metricsLock = 0
    /\ dthr = [t \in DebugThreads |-> DebugIdle]
    /\ incs = [t \in DebugThreads |-> [k \in Keys |-> 0]]
    /\ descLog = <<>>
    /\ nDescribe = 0
    /\ nUpdate = 0
    /\ nSnapshot = 0
    /\ conc = {}
    /\ appLog = <<>>
    /\ bufIds = [k \in Keys |-> <<>>]
    /\ snapLog = <<>>
    /\ orderly = TRUE
    /\ regIds = [ck \in CompositeKeys |-> 0]
    /\ cells = <<>>
    /\ held = [t \in DebugThreads |-> 0]
    /\ raced = FALSE

\* DebuggingRecorder::new()
DebugInit(ks, d, u, n) == DebugStart(ks, d, u, n, EmptyRegistry, <<>>)

SnapshotPcs == {"s_counters", "s_gauges", "s_histograms", "s_lock",
                "s_clone", "s_loop"}

InSnapshot(t) == dthr[t].pc \in SnapshotPcs

(***************************************************************************)
(* describe_counter / describe_gauge / describe_histogram and              *)
(* register_metric (debugging.rs 107-134).                                 *)
(***************************************************************************)
\* describe_<kind>(key, unit, description): the composite key is built and
\* register_metric is called
Describe(t) ==
    /\ dthr[t].pc = "idle"
    /\ nDescribe < limits.describes
    /\ \E kind \in kinds, key \in Keys, unit \in Units, desc \in Descriptions :
          dthr' = [dthr EXCEPT ![t] =
                      [DebugIdle EXCEPT !.pc = "d_lock", !.op = "describe",
                                        !.kind = kind, !.key = key,
                                        !.unit = unit, !.desc = desc]]
    /\ nDescribe' = nDescribe + 1
    /\ UNCHANGED <<registry, metrics, metricsLock, incs, descLog, nUpdate,
                   nSnapshot>>

\* self.metrics.lock(): waits until the Mutex is free
RegisterMetricLock(t) ==
    /\ dthr[t].pc = "d_lock"
    /\ metricsLock = 0
    /\ metricsLock' = t
    /\ dthr' = [dthr EXCEPT ![t].pc = "d_update"]
    /\ UNCHANGED <<registry, metrics, incs, descLog, nDescribe, nUpdate,
                   nSnapshot>>

\* metrics.entry(rkey).or_insert((None, None)); *uentry = unit;
\* *dentry = desc: the IndexMap after the call
UpsertMetric(m, ck, unit, desc) ==
    IF IndexOf(m, ck) = 0
    THEN Append(m, [ck |-> ck, unit |-> unit, desc |-> desc])
    ELSE [m EXCEPT ![IndexOf(m, ck)] = [ck |-> ck, unit |-> unit,
                                        desc |-> desc]]

\* the recorder after describe_<kind>(key, None, None) and
\* register_<kind>(key) on a new one
Described(kind, key) ==
    UpsertMetric(<<>>, CompositeKey(kind, key), None, None)

\* the entry is updated under the lock, which is released when
\* register_metric returns
RegisterMetricUpdate(t) ==
    /\ dthr[t].pc = "d_update"
    /\ metrics' = UpsertMetric(metrics,
                               CompositeKey(dthr[t].kind, dthr[t].key),
                               dthr[t].unit, dthr[t].desc)
    /\ metricsLock' = 0
    /\ descLog' = Append(descLog,
                         [ck |-> CompositeKey(dthr[t].kind, dthr[t].key),
                          unit |-> dthr[t].unit, desc |-> dthr[t].desc])
    /\ dthr' = [dthr EXCEPT ![t] = [DebugIdle EXCEPT !.op = "describe"]]
    /\ UNCHANGED <<registry, incs, nDescribe, nUpdate, nSnapshot>>

(***************************************************************************)
(* register_counter / register_gauge / register_histogram                  *)
(* (debugging.rs 136-149) and the handles they return.                     *)
(***************************************************************************)
\* Registry::get_or_create_<kind>: the map after the call; an absent key
\* gets a new handle holding `init`, a present one keeps its handle
GetOrCreate(map, key, init) ==
    IF key \in DOMAIN map THEN map ELSE Insert(map, key, init)

\* register_<kind>(key) with a new handle made and stored at every call
RegisterFresh(t) ==
    /\ dthr[t].pc = "idle"
    /\ \E kind \in kinds, key \in Keys :
          /\ registry' =
                CASE kind = "Counter" ->
                        [registry EXCEPT !.counters =
                            Insert(@, key, 0)]
                  [] kind = "Gauge" ->
                        [registry EXCEPT !.gauges =
                            Insert(@, key, PosZeroBits)]
                  [] kind = "Histogram" ->
                        [registry EXCEPT !.histograms =
                            Insert(@, key, <<>>)]
          /\ dthr' = [dthr EXCEPT ![t] =
                         [DebugIdle EXCEPT !.pc = "holding",
                                           !.op = "register",
                                           !.kind = kind, !.key = key]]
    /\ UNCHANGED <<metrics, metricsLock, incs, descLog, nDescribe, nUpdate,
                   nSnapshot>>

\* register_<kind>(key): the handle of the key is created if absent and a
\* reference to it is returned to the caller
Register(t) ==
    /\ dthr[t].pc = "idle"
    /\ \E kind \in kinds, key \in Keys :
          /\ registry' =
                CASE kind = "Counter" ->
                        [registry EXCEPT !.counters =
                            GetOrCreate(@, key, 0)]
                  [] kind = "Gauge" ->
                        [registry EXCEPT !.gauges =
                            GetOrCreate(@, key, PosZeroBits)]
                  [] kind = "Histogram" ->
                        [registry EXCEPT !.histograms =
                            GetOrCreate(@, key, <<>>)]
          /\ dthr' = [dthr EXCEPT ![t] =
                         [DebugIdle EXCEPT !.pc = "holding",
                                           !.op = "register",
                                           !.kind = kind, !.key = key]]
    /\ UNCHANGED <<metrics, metricsLock, incs, descLog, nDescribe, nUpdate,
                   nSnapshot>>

\* an update through the handle the thread holds: Counter::increment(1) is
\* an atomic fetch-add, Gauge::set(v) an atomic store of v's bits,
\* Histogram::record(v) an atomic append of the sample
Update(t) ==
    /\ dthr[t].pc = "holding"
    /\ nUpdate < limits.updates
    /\ nUpdate' = nUpdate + 1
    /\ LET key == dthr[t].key IN
       CASE dthr[t].kind = "Counter" ->
               /\ registry' = [registry EXCEPT !.counters[key] = @ + 1]
               /\ incs' = [incs EXCEPT ![t][key] = @ + 1]
         [] dthr[t].kind = "Gauge" ->
               /\ \E b \in GaugeBits :
                     registry' = [registry EXCEPT !.gauges[key] = b]
               /\ incs' = incs
         [] dthr[t].kind = "Histogram" ->
               /\ \E x \in Samples :
                     registry' = [registry EXCEPT !.histograms[key] =
                                     Append(@, x)]
               /\ incs' = incs
    /\ UNCHANGED <<metrics, metricsLock, dthr, descLog, nDescribe, nSnapshot>>

\* the caller drops the handle
Release(t) ==
    /\ dthr[t].pc = "holding"
    /\ dthr' = [dthr EXCEPT ![t] = [DebugIdle EXCEPT !.op = "register"]]
    /\ UNCHANGED <<registry, metrics, metricsLock, incs, descLog, nDescribe,
                   nUpdate, nSnapshot>>

(***************************************************************************)
(* Snapshotter::snapshot (debugging.rs 48-78), one action per step.        *)
(***************************************************************************)
\* let mut snapshot = HashMap::new();
\* let counters = self.registry.get_counter_handles();
Snapshot(t) ==
    /\ dthr[t].pc = "idle"
    /\ nSnapshot < limits.snapshots
    /\ nSnapshot' = nSnapshot + 1
    /\ dthr' = [dthr EXCEPT ![t] =
                   [DebugIdle EXCEPT !.pc = "s_gauges", !.op = "snapshot",
                                     !.hC = DOMAIN registry.counters,
                                     !.metaAtStart = MetricKeys(metrics),
                                     !.regAtStart = RegisteredKeys(registry),
                                     !.incsAtStart =
                                        [k \in Keys |-> TotalIncs(k)]]]
    /\ UNCHANGED <<registry, metrics, metricsLock, incs, descLog, nDescribe,
                   nUpdate>>

\* let gauges = self.registry.get_gauge_handles();
SnapshotGauges(t) ==
    /\ dthr[t].pc = "s_gauges"
    /\ dthr' = [dthr EXCEPT ![t].pc = "s_histograms",
                            ![t].hG = DOMAIN registry.gauges]
    /\ UNCHANGED <<registry, metrics, metricsLock, incs, descLog, nDescribe,
                   nUpdate, nSnapshot>>

\* let histograms = self.registry.get_histogram_handles();
SnapshotHistograms(t) ==
    /\ dthr[t].pc = "s_histograms"
    /\ dthr' = [dthr EXCEPT ![t].pc = "s_lock",
                            ![t].hH = DOMAIN registry.histograms]
    /\ UNCHANGED <<registry, metrics, metricsLock, incs, descLog, nDescribe,
                   nUpdate, nSnapshot>>

\* self.metrics.lock(): waits until the Mutex is free
SnapshotLock(t) ==
    /\ dthr[t].pc = "s_lock"
    /\ metricsLock = 0
    /\ metricsLock' = t
    /\ dthr' = [dthr EXCEPT ![t].pc = "s_clone"]
    /\ UNCHANGED <<registry, metrics, incs, descLog, nDescribe, nUpdate,
                   nSnapshot>>

\* the clone with the guard kept alive into the loop
SnapshotCloneHold(t) ==
    /\ dthr[t].pc = "s_clone"
    /\ metricsLock' = t
    /\ dthr' = [dthr EXCEPT ![t].pc = "s_loop", ![t].meta = metrics,
                            ![t].idx = 1]
    /\ UNCHANGED <<registry, metrics, incs, descLog, nDescribe, nUpdate,
                   nSnapshot>>

\* .clone(): the map is copied and the guard, a temporary, is dropped at
\* the end of the statement
SnapshotClone(t) ==
    /\ dthr[t].pc = "s_clone"
    /\ metricsLock' = 0
    /\ dthr' = [dthr EXCEPT ![t].pc = "s_loop", ![t].meta = metrics,
                            ![t].idx = 1]
    /\ UNCHANGED <<registry, metrics, incs, descLog, nDescribe, nUpdate,
                   nSnapshot>>

\* the match on ck.kind() with a histogram arm that reports the newest
\* sample only
HandleValueNewest(th, ck) ==
    CASE ck[1] = "Counter" ->
            IF ck[2] \in th.hC
            THEN Some(DebugCounter(registry.counters[ck[2]]))
            ELSE None
      [] ck[1] = "Gauge" ->
            IF ck[2] \in th.hG
            THEN Some(DebugGauge(from_bits(registry.gauges[ck[2]])))
            ELSE None
      [] ck[1] = "Histogram" ->
            IF ck[2] \in th.hH
            THEN Some(DebugHistogram(
                    IF registry.histograms[ck[2]] = <<>>
                    THEN <<>>
                    ELSE <<registry.histograms[ck[2]]
                              [Len(registry.histograms[ck[2]])]>>))
            ELSE None

\* the match on ck.kind(): the value read through the handle the snapshot
\* holds for the entry's key, None when it holds no such handle. A counter
\* is read by c.load, a gauge by f64::from_bits(g.load), a histogram by
\* h.clear_with, which takes every sample out of it
HandleValue(th, ck) ==
    CASE ck[1] = "Counter" ->
            IF ck[2] \in th.hC
            THEN Some(DebugCounter(registry.counters[ck[2]]))
            ELSE None
      [] ck[1] = "Gauge" ->
            IF ck[2] \in th.hG
            THEN Some(DebugGauge(from_bits(registry.gauges[ck[2]])))
            ELSE None
      [] ck[1] = "Histogram" ->
            IF ck[2] \in th.hH
            THEN Some(DebugHistogram(registry.histograms[ck[2]]))
            ELSE None

\* a read of the histogram that leaves its samples in place
AfterReadKeep(th, ck) == registry

\* the registry after the entry's handle has been read: clear_with leaves
\* the histogram empty, the loads change nothing
AfterRead(th, ck) ==
    IF ck[1] = "Histogram" /\ ck[2] \in th.hH
    THEN [registry EXCEPT !.histograms[ck[2]] = <<>>]
    ELSE registry

\* the loop body with the entry left out when it has no handle
SnapshotEntrySkip(t) ==
    /\ dthr[t].pc = "s_loop"
    /\ dthr[t].idx <= Len(dthr[t].meta)
    /\ LET e == dthr[t].meta[dthr[t].idx]
           value == HandleValue(dthr[t], e.ck)
       IN  /\ registry' = AfterRead(dthr[t], e.ck)
           /\ IF value = None
              THEN dthr' = [dthr EXCEPT ![t].idx = @ + 1]
              ELSE dthr' = [dthr EXCEPT
                              ![t].idx = @ + 1,
                              ![t].snap = Insert(@, e.ck,
                                             [unit |-> e.unit,
                                              desc |-> e.desc,
                                              value |-> value[1]])]
    /\ UNCHANGED <<metrics, metricsLock, incs, descLog, nDescribe, nUpdate,
                   nSnapshot>>

\* one turn of `for (ck, (unit, desc)) in metrics.into_iter()`: the value
\* is read, value.expect(..) panics when there is none, and the entry is
\* inserted in the snapshot
SnapshotEntry(t) ==
    /\ dthr[t].pc = "s_loop"
    /\ dthr[t].idx <= Len(dthr[t].meta)
    /\ LET e == dthr[t].meta[dthr[t].idx]
           value == HandleValue(dthr[t], e.ck)
       IN  /\ registry' = AfterRead(dthr[t], e.ck)
           /\ IF value = None
              THEN dthr' = [dthr EXCEPT ![t].pc = "panicked"]
              ELSE dthr' = [dthr EXCEPT
                              ![t].idx = @ + 1,
                              ![t].snap = Insert(@, e.ck,
                                             [unit |-> e.unit,
                                              desc |-> e.desc,
                                              value |-> value[1]])]
    /\ UNCHANGED <<metrics, metricsLock, incs, descLog, nDescribe, nUpdate,
                   nSnapshot>>

\* Snapshot(snapshot): the loop is over and the snapshot is returned
SnapshotReturn(t) ==
    /\ dthr[t].pc = "s_loop"
    /\ dthr[t].idx > Len(dthr[t].meta)
    /\ dthr' = [dthr EXCEPT ![t].pc = "idle", ![t].idx = 0]
    /\ UNCHANGED <<registry, metrics, metricsLock, incs, descLog, nDescribe,
                   nUpdate, nSnapshot>>

\* a step of thread t overlaps the snapshot() of every other thread that is
\* inside one; a snapshot() that starts has not been overlapped yet
Overlap(t) ==
    conc' = (IF dthr[t].pc = "idle" /\ dthr'[t].op = "snapshot"
                  /\ dthr'[t].pc # "idle"
             THEN conc \ {t}
             ELSE conc)
            \cup {u \in DebugThreads \ {t} : InSnapshot(u)}

\* the step of thread t is a Histogram::record
IsAppend(t) == nUpdate' > nUpdate /\ dthr[t].kind = "Histogram"

\* the step of thread t is the start of a snapshot()
IsSnapshotStart(t) ==
    dthr[t].pc = "idle" /\ dthr'[t].op = "snapshot" /\ dthr'[t].pc # "idle"

\* the step of thread t is a turn of snapshot()'s loop that drains the
\* histogram of the entry's key
IsDrain(t) ==
    /\ dthr[t].pc = "s_loop"
    /\ dthr[t].idx <= Len(dthr[t].meta)
    /\ dthr[t].meta[dthr[t].idx].ck[1] = "Histogram"
    /\ dthr[t].meta[dthr[t].idx].ck[2] \in dthr[t].hH

\* the step of thread t is snapshot() returning
IsSnapshotReturn(t) == dthr[t].pc = "s_loop" /\ dthr'[t].pc = "idle"

\* the step of thread t is the start of a describe_* call
IsDescribeStart(t) == dthr[t].pc = "idle" /\ dthr'[t].pc = "d_lock"

\* the entry of snapLog of the snapshot() thread t is inside
CurSnap(t) ==
    CHOOSE i \in 1..Len(snapLog) : snapLog[i].t = t /\ ~snapLog[i].done

\* the history after a step of thread t
History(t) ==
    /\ appLog' =
          IF IsAppend(t)
          THEN Append(appLog,
                  [key |-> dthr[t].key,
                   x |-> registry'.histograms[dthr[t].key]
                            [Len(registry'.histograms[dthr[t].key])],
                   described |->
                      CompositeKey("Histogram", dthr[t].key)
                         \in MetricKeys(metrics)])
          ELSE appLog
    /\ bufIds' =
          CASE IsAppend(t) ->
                  [bufIds EXCEPT ![dthr[t].key] = Append(@, Len(appLog) + 1)]
            [] IsDrain(t) ->
                  [bufIds EXCEPT ![dthr[t].meta[dthr[t].idx].ck[2]] = <<>>]
            [] OTHER -> bufIds
    /\ snapLog' =
          CASE IsSnapshotStart(t) ->
                  Append(snapLog,
                     [t |-> t, apps |-> Len(appLog),
                      meta |-> MetricKeys(metrics),
                      gauges |-> registry.gauges,
                      ids |-> <<>>, done |-> FALSE, quiet |-> FALSE,
                      result |-> EmptyMap])
            [] IsDrain(t) ->
                  [snapLog EXCEPT ![CurSnap(t)].ids =
                      @ \o bufIds[dthr[t].meta[dthr[t].idx].ck[2]]]
            [] IsSnapshotReturn(t) ->
                  [snapLog EXCEPT ![CurSnap(t)].done = TRUE,
                                  ![CurSnap(t)].quiet = (t \notin conc),
                                  ![CurSnap(t)].result = dthr[t].snap]
            [] OTHER -> snapLog
    /\ orderly' =
          (orderly /\ (IsDescribeStart(t)
                         => CompositeKey(dthr'[t].kind, dthr'[t].key)
                               \in RegisteredKeys(registry)))

\* what a step of thread t on the DebuggingRecorder leaves alone
DebugFrame(t) ==
    Overlap(t) /\ History(t) /\ UNCHANGED <<kinds, limits, slotVars, raceVars>>

DebugNext ==
    \E t \in DebugThreads :
        \/ Describe(t) /\ DebugFrame(t)
        \/ RegisterMetricLock(t) /\ DebugFrame(t)
        \/ RegisterMetricUpdate(t) /\ DebugFrame(t)
        \/ Register(t) /\ DebugFrame(t)
        \/ Update(t) /\ DebugFrame(t)
        \/ Release(t) /\ DebugFrame(t)
        \/ Snapshot(t) /\ DebugFrame(t)
        \/ SnapshotGauges(t) /\ DebugFrame(t)
        \/ SnapshotHistograms(t) /\ DebugFrame(t)
        \/ SnapshotLock(t) /\ DebugFrame(t)
        \/ SnapshotClone(t) /\ DebugFrame(t)
        \/ SnapshotEntry(t) /\ DebugFrame(t)
        \/ SnapshotReturn(t) /\ DebugFrame(t)

\* the steps of threads that never update a handle
MetaNext ==
    \E t \in DebugThreads :
        \/ Describe(t) /\ DebugFrame(t)
        \/ RegisterMetricLock(t) /\ DebugFrame(t)
        \/ RegisterMetricUpdate(t) /\ DebugFrame(t)
        \/ Register(t) /\ DebugFrame(t)
        \/ Release(t) /\ DebugFrame(t)
        \/ Snapshot(t) /\ DebugFrame(t)
        \/ SnapshotGauges(t) /\ DebugFrame(t)
        \/ SnapshotHistograms(t) /\ DebugFrame(t)
        \/ SnapshotLock(t) /\ DebugFrame(t)
        \/ SnapshotClone(t) /\ DebugFrame(t)
        \/ SnapshotEntry(t) /\ DebugFrame(t)
        \/ SnapshotReturn(t) /\ DebugFrame(t)

\* installers and loaders on a fresh slot; clear is never called
Init == SlotInit /\ DebugInit({}, 0, 0, 0)

Spec == Init /\ [][SlotNext]_vars

\* installers, loaders and callers of clear_recorder on a fresh slot
ClearSpec == Init /\ [][ClearNext]_vars

\* threads describing, registering, incrementing and snapshotting the
\* counters of one DebuggingRecorder
CounterInit ==
    SlotInit /\ DebugInit({"Counter"}, MaxDescribes, MaxUpdates, MaxSnapshots)

CounterSpec == CounterInit /\ [][DebugNext]_vars

\* threads describing, registering, updating and snapshotting a counter
\* and a gauge of the same Key of one DebuggingRecorder, on which
\* describe_counter(k1, None, None) and register_counter(k1) have been
\* called
KindInit ==
    /\ SlotInit
    /\ DebugStart({"Counter", "Gauge"}, MetaDescribes, GaugeUpdates,
                  MaxSnapshots,
                  [EmptyRegistry EXCEPT
                      !.counters = GetOrCreate(@, "k1", 0)],
                  Described("Counter", "k1"))

KindSpec == KindInit /\ [][DebugNext]_vars

\* threads describing, registering and snapshotting metrics of every kind
\* of one DebuggingRecorder, without updating them
MetaInit == SlotInit /\ DebugInit(Kinds, MetaDescribes, 0, MaxSnapshots)

MetaSpec == MetaInit /\ [][MetaNext]_vars

(***************************************************************************)
(* register_counter (debugging.rs 136-139) with the steps of               *)
(* Registry::get_or_create_counter: a lookup, then for an absent key an    *)
(* atomic insert-if-absent.                                                *)
(***************************************************************************)
\* register_<kind>(key) is called
GetOrCreateCall(t) ==
    /\ dthr[t].pc = "idle"
    /\ \E kind \in kinds, key \in Keys :
          dthr' = [dthr EXCEPT ![t] =
                      [DebugIdle EXCEPT !.pc = "g_lookup", !.op = "register",
                                        !.kind = kind, !.key = key]]
    /\ held' = [held EXCEPT ![t] = 0]
    /\ UNCHANGED <<regIds, cells, raced, incs, nUpdate>>

\* the lookup: an entry found is returned as a new reference to it
GetOrCreateLookup(t) ==
    /\ dthr[t].pc = "g_lookup"
    /\ LET ck == CompositeKey(dthr[t].kind, dthr[t].key) IN
       IF regIds[ck] # 0
       THEN /\ held' = [held EXCEPT ![t] = regIds[ck]]
            /\ dthr' = [dthr EXCEPT ![t].pc = "g_holding"]
       ELSE /\ held' = held
            /\ dthr' = [dthr EXCEPT ![t].pc = "g_insert"]
    /\ UNCHANGED <<regIds, cells, raced, incs, nUpdate>>

\* an insert that constructs a handle and stores it whatever the map holds
GetOrCreateInsertPut(t) ==
    /\ dthr[t].pc = "g_insert"
    /\ LET ck == CompositeKey(dthr[t].kind, dthr[t].key) IN
       /\ cells' = Append(cells, 0)
       /\ regIds' = [regIds EXCEPT ![ck] = Len(cells) + 1]
       /\ held' = [held EXCEPT ![t] = Len(cells) + 1]
       /\ raced' = (raced \/ regIds[ck] # 0)
    /\ dthr' = [dthr EXCEPT ![t].pc = "g_holding"]
    /\ UNCHANGED <<incs, nUpdate>>

\* the atomic insert-if-absent: a handle is constructed and stored when the
\* key is still absent, the entry another call made is returned otherwise
GetOrCreateInsert(t) ==
    /\ dthr[t].pc = "g_insert"
    /\ LET ck == CompositeKey(dthr[t].kind, dthr[t].key) IN
       IF regIds[ck] = 0
       THEN /\ cells' = Append(cells, 0)
            /\ regIds' = [regIds EXCEPT ![ck] = Len(cells) + 1]
            /\ held' = [held EXCEPT ![t] = Len(cells) + 1]
            /\ raced' = raced
       ELSE /\ held' = [held EXCEPT ![t] = regIds[ck]]
            /\ raced' = TRUE
            /\ UNCHANGED <<regIds, cells>>
    /\ dthr' = [dthr EXCEPT ![t].pc = "g_holding"]
    /\ UNCHANGED <<incs, nUpdate>>

\* Counter::increment(1) through the reference the thread holds
HandleUpdate(t) ==
    /\ dthr[t].pc = "g_holding"
    /\ nUpdate < limits.updates
    /\ nUpdate' = nUpdate + 1
    /\ cells' = [cells EXCEPT ![held[t]] = @ + 1]
    /\ incs' = [incs EXCEPT ![t][dthr[t].key] = @ + 1]
    /\ UNCHANGED <<regIds, held, raced, dthr>>

\* the caller drops its reference
HandleDrop(t) ==
    /\ dthr[t].pc = "g_holding"
    /\ dthr' = [dthr EXCEPT ![t] = [DebugIdle EXCEPT !.op = "register"]]
    /\ held' = [held EXCEPT ![t] = 0]
    /\ UNCHANGED <<regIds, cells, raced, incs, nUpdate>>

\* what a step of a register_* call leaves alone
RaceFrame ==
    UNCHANGED <<kinds, limits, registry, metrics, metricsLock, descLog,
                nDescribe, nSnapshot, conc, slotVars, histVars>>

\* threads racing to register the same counter and incrementing it
RaceNext ==
    \E t \in DebugThreads :
        \/ GetOrCreateCall(t) /\ RaceFrame
        \/ GetOrCreateLookup(t) /\ RaceFrame
        \/ GetOrCreateInsert(t) /\ RaceFrame
        \/ HandleUpdate(t) /\ RaceFrame
        \/ HandleDrop(t) /\ RaceFrame

\* the steps of threads that describe no metric
ValueNext ==
    \E t \in DebugThreads :
        \/ Register(t) /\ DebugFrame(t)
        \/ Update(t) /\ DebugFrame(t)
        \/ Release(t) /\ DebugFrame(t)
        \/ Snapshot(t) /\ DebugFrame(t)
        \/ SnapshotGauges(t) /\ DebugFrame(t)
        \/ SnapshotHistograms(t) /\ DebugFrame(t)
        \/ SnapshotLock(t) /\ DebugFrame(t)
        \/ SnapshotClone(t) /\ DebugFrame(t)
        \/ SnapshotEntry(t) /\ DebugFrame(t)
        \/ SnapshotReturn(t) /\ DebugFrame(t)

\* threads registering, recording in and snapshotting a histogram that has
\* been described and registered
HistInit ==
    /\ SlotInit
    /\ DebugStart({"Histogram"}, 0, HistUpdates, HistSnapshots,
                  [EmptyRegistry EXCEPT
                      !.histograms = GetOrCreate(@, "k1", <<>>)],
                  Described("Histogram", "k1"))

HistSpec == HistInit /\ [][ValueNext]_vars

\* threads calling register_counter on a new DebuggingRecorder
RaceInit == SlotInit /\ DebugInit({"Counter"}, 0, RaceUpdates, 0)

RaceSpec == RaceInit /\ [][RaceNext]_vars

\* threads registering, setting and snapshotting a gauge that has been
\* described and registered
GaugeInit ==
    /\ SlotInit
    /\ DebugStart({"Gauge"}, 0, GaugeUpdates, MaxSnapshots,
                  [EmptyRegistry EXCEPT
                      !.gauges = GetOrCreate(@, "k1", PosZeroBits)],
                  Described("Gauge", "k1"))

GaugeSpec == GaugeInit /\ [][ValueNext]_vars

(***************************************************************************)
(* Properties of the DebuggingRecorder.                                    *)
(***************************************************************************)
\* snapshot() has returned a Snapshot to thread t
SnapDone(t) == dthr[t].op = "snapshot" /\ dthr[t].pc = "idle"

\* no other thread took a step while thread t was inside its snapshot()
Quiet(t) == t \notin conc

\* C7: a snapshot() that no other thread's step overlapped (so every
\* increment made was complete when it started) reports for a described
\* and registered counter exactly the number of increments the threads
\* made through the handles register_counter gave them.
C7_SnapshotCountsEveryIncrement ==
    \A t \in DebugThreads :
        (SnapDone(t) /\ Quiet(t))
           => \A key \in Keys :
                 CompositeKey("Counter", key) \in dthr[t].metaAtStart
                    => /\ CompositeKey("Counter", key) \in DOMAIN dthr[t].snap
                       /\ dthr[t].snap[CompositeKey("Counter", key)].value
                             = DebugCounter(dthr[t].incsAtStart[key])

\* two threads incremented the counter twice each and the snapshot taken
\* afterwards reports 4
C7_Witness ==
    \E t \in DebugThreads, key \in Keys :
        /\ SnapDone(t) /\ Quiet(t)
        /\ \A u \in DebugThreads : incs[u][key] = 2
        /\ CompositeKey("Counter", key) \in DOMAIN dthr[t].snap
        /\ dthr[t].snap[CompositeKey("Counter", key)].value = DebugCounter(4)

\* the metadata the recorder stores for composite key ck, None when absent
StoredMetadata(ck) ==
    IF IndexOf(metrics, ck) = 0
    THEN None
    ELSE Some(<<metrics[IndexOf(metrics, ck)].unit,
                metrics[IndexOf(metrics, ck)].desc>>)

\* C8: when a key is described first with a unit and no description and
\* then with a description and no unit, the stored metadata holds both the
\* unit of the first call and the description of the second.
C8_DescribeKeepsEarlierUnit ==
    \A i \in 1..(Len(descLog) - 1) :
        (/\ i + 1 = Len(descLog)
         /\ descLog[i].ck = descLog[i + 1].ck
         /\ descLog[i].unit = Some("U1") /\ descLog[i].desc = None
         /\ descLog[i + 1].unit = None /\ descLog[i + 1].desc = Some("D2"))
           => StoredMetadata(descLog[i].ck) = Some(<<Some("U1"), Some("D2")>>)

\* C9: snapshot() returns a Snapshot only if every key that had metadata
\* when it was called has a handle in the registry; such a key is never
\* left out of the Snapshot and no value is made up for a key without a
\* handle, so a described key that was never registered makes the call end
\* in the panic of `expect`.
C9_SnapshotAbortsOnMissingHandle ==
    \A t \in DebugThreads :
        SnapDone(t)
           => /\ dthr[t].metaAtStart \subseteq RegisteredKeys(registry)
              /\ dthr[t].metaAtStart \subseteq DOMAIN dthr[t].snap
              /\ DOMAIN dthr[t].snap \subseteq RegisteredKeys(registry)

\* a snapshot() has panicked on a key that was described and never
\* registered
C9_Witness ==
    \E t \in DebugThreads :
        /\ dthr[t].op = "snapshot" /\ dthr[t].pc = "panicked"
        /\ \E ck \in dthr[t].metaAtStart : ck \notin RegisteredKeys(registry)

\* C10: a snapshot() that no other thread's step overlapped contains an
\* entry for every metric that was registered when it was called.
C10_SnapshotHasEveryRegisteredMetric ==
    \A t \in DebugThreads :
        (SnapDone(t) /\ Quiet(t))
           => dthr[t].regAtStart \subseteq DOMAIN dthr[t].snap

\* the number of times x occurs in the sequence xs
Count(xs, x) == Cardinality({i \in 1..Len(xs) : xs[i] = x})

\* the samples drained by the snapshot() calls that started before the i-th
DrainedBefore(i) ==
    UNION {{snapLog[j].ids[n] : n \in 1..Len(snapLog[j].ids)} :
              j \in 1..(i - 1)}

\* the samples of histogram `key` that were recorded before the i-th
\* snapshot() started and that no earlier snapshot() took
Pending(i, key) ==
    {a \in 1..snapLog[i].apps :
        appLog[a].key = key /\ a \notin DrainedBefore(i)}

\* the i-th snapshot() returned and no other thread's step overlapped it
QuietSnap(i) == snapLog[i].done /\ snapLog[i].quiet

\* C11: a snapshot() that no other thread's step overlapped reports for a
\* described and registered histogram a Histogram value holding exactly
\* the multiset of the samples recorded before it and not taken by an
\* earlier snapshot (all of a, b, c for the first one); and a snapshot that
\* follows it with no sample recorded in between reports an empty
\* Histogram value.
C11_SnapshotDrainsHistogram ==
    \A i \in 1..Len(snapLog), key \in Keys :
        (QuietSnap(i) /\ CompositeKey("Histogram", key) \in snapLog[i].meta)
           => LET ck == CompositeKey("Histogram", key) IN
              /\ ck \in DOMAIN snapLog[i].result
              /\ snapLog[i].result[ck].value.kind = "Histogram"
              /\ Len(snapLog[i].result[ck].value.h)
                    = Cardinality(Pending(i, key))
              /\ \A x \in Samples :
                    Count(snapLog[i].result[ck].value.h, x)
                       = Cardinality({a \in Pending(i, key) : appLog[a].x = x})
              /\ \A j \in 1..(i - 1) :
                    (QuietSnap(j) /\ ck \in snapLog[j].meta
                       /\ snapLog[j].apps = snapLog[i].apps)
                       => snapLog[i].result[ck].value.h = <<>>

\* three samples, two of them equal, were recorded; the first snapshot
\* reported the three and the second, taken right after it, none
C11_Witness ==
    /\ Len(snapLog) = 2 /\ QuietSnap(1) /\ QuietSnap(2)
    /\ snapLog[1].apps = 3 /\ snapLog[2].apps = 3
    /\ LET ck == CompositeKey("Histogram", "k1") IN
       /\ ck \in DOMAIN snapLog[1].result /\ ck \in DOMAIN snapLog[2].result
       /\ Len(snapLog[1].result[ck].value.h) = 3
       /\ Count(snapLog[1].result[ck].value.h, 1) = 2
       /\ Count(snapLog[1].result[ck].value.h, 2) = 1
       /\ snapLog[2].result[ck].value = DebugHistogram(<<>>)

C13_NoPanicWhenRegisteredFirst ==
    orderly => \A t \in DebugThreads : dthr[t].pc # "panicked"

\* the snapshot() calls that started after the a-th sample was recorded
StartedAfter(a) == {i \in 1..Len(snapLog) : snapLog[i].apps >= a}

\* the snapshot() calls that took the a-th sample out of its histogram
TakenBy(a) ==
    {i \in 1..Len(snapLog) :
        \E n \in 1..Len(snapLog[i].ids) : snapLog[i].ids[n] = a}

\* the first snapshot() that started after the a-th sample was recorded
FirstAfter(a) ==
    CHOOSE i \in StartedAfter(a) : \A j \in StartedAfter(a) : i <= j

\* C14 (as amended): for a described and registered histogram, whatever
\* the interleaving of records and snapshot() calls of several threads, no
\* sample is taken by two snapshots; the Histogram value a snapshot returns
\* holds exactly the samples it took; and once the first snapshot that
\* started after a sample was recorded has returned, the sample has been
\* taken by exactly one snapshot (that one, or one that overlapped it or
\* came before it).
C14_SampleInExactlyOneSnapshot ==
    /\ \A a \in 1..Len(appLog) :
          /\ Cardinality(TakenBy(a)) <= 1
          /\ (appLog[a].described /\ StartedAfter(a) # {}
                /\ snapLog[FirstAfter(a)].done)
                => Cardinality(TakenBy(a)) = 1
    /\ \A i \in 1..Len(snapLog), key \in Keys :
          (snapLog[i].done /\ CompositeKey("Histogram", key) \in snapLog[i].meta)
             => /\ CompositeKey("Histogram", key) \in DOMAIN snapLog[i].result
                /\ snapLog[i].result[CompositeKey("Histogram", key)].value
                      = DebugHistogram([n \in 1..Len(snapLog[i].ids) |->
                                           appLog[snapLog[i].ids[n]].x])

\* two snapshots overlapped: a sample recorded before either started was
\* taken by the one that started second, and both have returned
C14_Witness ==
    /\ Len(snapLog) = 2
    /\ snapLog[1].done /\ snapLog[2].done
    /\ \E a \in 1..Len(appLog) :
          /\ appLog[a].described
          /\ a <= snapLog[1].apps
          /\ TakenBy(a) = {2}
          /\ Count(snapLog[2].result[CompositeKey("Histogram", "k1")].value.h,
                   appLog[a].x) >= 1

\* C14 (as stated): once the first snapshot that started after a sample
\* was recorded has returned, the sample is in the Histogram value of
\* exactly one snapshot, and that snapshot is the first one that started
\* after the record or one that started before it.
C14_SampleInSnapshotStartedNoLater ==
    \A a \in 1..Len(appLog) :
        (appLog[a].described /\ StartedAfter(a) # {}
           /\ snapLog[FirstAfter(a)].done)
           => /\ Cardinality(TakenBy(a)) = 1
              /\ \A i \in TakenBy(a) : i <= FirstAfter(a)

\* C15: whatever the interleaving of register_counter calls for one key,
\* the registry holds at most one handle for it and as many handles have
\* been constructed as keys have an entry; every reference a call returned
\* is a reference to the registry's handle, also for a call made after the
\* entry existed; and the handle has received every increment made
\* through any of the references.
C15_OneHandlePerKey ==
    /\ Len(cells) = Cardinality({ck \in CompositeKeys : regIds[ck] # 0})
    /\ \A t \in DebugThreads :
          dthr[t].pc = "g_holding"
             => /\ held[t] # 0
                /\ held[t] = regIds[CompositeKey(dthr[t].kind, dthr[t].key)]
    /\ \A key \in Keys :
          IF regIds[CompositeKey("Counter", key)] = 0
          THEN TotalIncs(key) = 0
          ELSE cells[regIds[CompositeKey("Counter", key)]] = TotalIncs(key)

\* two calls found no entry for the key and raced at the insert; both
\* returned the same handle, and the increment each thread made is in it
C15_Witness ==
    /\ raced
    /\ \A t \in DebugThreads :
          /\ dthr[t].pc = "g_holding"
          /\ held[t] = regIds[CompositeKey("Counter", "k1")]
          /\ incs[t]["k1"] = 1
    /\ cells[regIds[CompositeKey("Counter", "k1")]] = 2

(***************************************************************************)
(* Properties of the global recorder slot with clear_recorder.             *)
(***************************************************************************)
\* the last clear_recorder() found a recorder installed
ClearedInstalled == epoch.n > 0 /\ epoch.prev # None

\* after a clear of an installed recorder: the state is Uninitialized
\* until an install attempt begins, a load returns None as long as no
\* attempt has won, the first attempt returns Ok unless it overlaps
\* another, and a load that starts after an install has returned returns
\* the recorder of that install
ClearedSlotBehaves ==
    ClearedInstalled =>
        /\ begun = epoch.begun => state = UNINITIALIZED
        /\ \A t \in Threads :
              /\ (LoadDone(t) /\ casWinner = None) => thr[t].opt = None
              /\ (SetDone(t) /\ seqRun /\ thr[t].ord = epoch.begun + 1)
                    => thr[t].ret = "Ok"
              /\ (LoadDone(t) /\ thr[t].atStart # None)
                    => /\ thr[t].opt = thr[t].atStart
                       /\ thr[t].atStart # epoch.prev
                             => thr[t].opt # epoch.prev

\* C16: after clear_recorder() on an Initialized slot with no load or
\* install in progress, the recorder that was installed has not been
\* destroyed; the state is Uninitialized until an install attempt begins;
\* try_load returns None until an install; the next install attempt
\* returns Ok; and a load that starts after that install has returned
\* returns its recorder, not the earlier one.
C16_ClearThenReinstall ==
    /\ ClearedInstalled => dropCount[epoch.prev[1]] = 0
    /\ ClearedSlotBehaves

\* the threads between winning the compare_exchange and the store of
\* INITIALIZED: the ones that write the cell
CellWriters == {t \in Threads : thr[t].pc \in {"into_ref", "write", "store"}}

\* C17: when clear_recorder() is only called while no thread is inside
\* try_load or set, at most one thread is between winning the
\* compare_exchange and storing INITIALIZED, and a thread about to read
\* the cell in try_load has no writer beside it and reads the last write.
C17_NoRaceOnCell ==
    /\ Cardinality(CellWriters) <= 1
    /\ \A t \in Threads :
          thr[t].pc = "read"
             => /\ CellWriters = {}
                /\ view[t] = Len(cellHist)

\* after a clear, one thread is about to write the cell again while
\* another has loaded and found the slot Initializing
C17_Witness ==
    /\ epoch.n > 0
    /\ \E t, u \in Threads :
          /\ thr[t].pc = "write"
          /\ LoadDone(u) /\ thr[u].obs = INITIALIZING

(***************************************************************************)
(* Install and load take their steps without waiting.                      *)
(***************************************************************************)
\* the steps thread t takes inside set and try_load
SlotStep(t) ==
    \/ SetCas(t)
    \/ SetIntoRef(t)
    \/ SetWrite(t)
    \/ SetStore(t)
    \/ SetFail(t)
    \/ TryLoadState(t)
    \/ TryLoadRead(t)

\* the most steps a call at position pc still takes before it returns
StepsLeft(pc) ==
    CASE pc = "cas" -> 4
      [] pc = "into_ref" -> 3
      [] pc = "write" -> 2
      [] pc = "store" -> 1
      [] pc = "fail_drop" -> 1
      [] pc = "load" -> 2
      [] pc = "read" -> 1
      [] OTHER -> 0

\* a thread inside set or try_load can take its next step whatever the
\* other threads do
CanAlwaysStep ==
    \A t \in Threads : thr[t].pc # "idle" => ENABLED SlotStep(t)

\* every step of a call brings it nearer to its return, and on finding
\* the slot Initializing set goes straight to its Err return and try_load
\* returns None
StepsTowardsReturn ==
    \A t \in Threads :
        (thr[t].pc # "idle" /\ thr'[t] # thr[t])
           => /\ StepsLeft(thr'[t].pc) < StepsLeft(thr[t].pc)
              /\ (thr[t].pc = "cas" /\ state = INITIALIZING)
                    => thr'[t].pc = "fail_drop"
              /\ thr[t].pc = "fail_drop"
                    => thr'[t].pc = "idle" /\ thr'[t].ret = "Err"
              /\ (thr[t].pc = "load" /\ state = INITIALIZING)
                    => thr'[t].pc = "idle" /\ thr'[t].opt = None

\* C18: install and load never wait on another thread: a thread inside
\* set or try_load always has a step to take, each step leaves it fewer
\* steps to its return (at most four in all), and a call that finds the
\* slot Initializing returns at once, set with an error and try_load with
\* None.
C18_NeverWaits == []CanAlwaysStep /\ [][StepsTowardsReturn]_vars

\* while an install is still between its compare_exchange and its store,
\* an install attempt has returned an error and a load has returned None
\* for having found the slot Initializing
C18_Witness ==
    \E w, u \in Threads :
        /\ thr[w].pc \in {"into_ref", "write", "store"}
        /\ errCount >= 1
        /\ LoadDone(u) /\ thr[u].obs = INITIALIZING /\ thr[u].opt = None

(***************************************************************************)
(* Metrics of different kinds under one Key.                               *)
(***************************************************************************)
\* the metadata stored in the IndexMap m for the metric of that kind and
\* key, None when it has no entry
MetadataOf(m, kind, key) ==
    IF \E i \in 1..Len(m) : m[i].ck = <<kind, key>>
    THEN LET i == CHOOSE j \in 1..Len(m) : m[j].ck = <<kind, key>>
         IN  Some(<<m[i].unit, m[i].desc>>)
    ELSE None

\* what the handle of that kind and key in registry reg holds, None when
\* the registry has no such handle
HandleOf(reg, kind, key) ==
    CASE kind = "Counter" ->
            IF key \in DOMAIN reg.counters
            THEN Some(DebugCounter(reg.counters[key])) ELSE None
      [] kind = "Gauge" ->
            IF key \in DOMAIN reg.gauges
            THEN Some(DebugGauge(from_bits(reg.gauges[key]))) ELSE None
      [] kind = "Histogram" ->
            IF key \in DOMAIN reg.histograms
            THEN Some(DebugHistogram(reg.histograms[key])) ELSE None

\* the step changes neither metadata nor handle of any metric but the one
\* of that kind and key
OthersUntouched(kind, key) ==
    \A k2 \in Kinds, key2 \in Keys :
        <<k2, key2>> # <<kind, key>>
           => /\ MetadataOf(metrics', k2, key2) = MetadataOf(metrics, k2, key2)
              /\ HandleOf(registry', k2, key2) = HandleOf(registry, k2, key2)

\* a describe, register or update touches the metric of its own kind only,
\* a describe leaves an entry and a register a handle for it, no entry or
\* handle ever goes away, and the loop of snapshot() reports an entry with
\* what the handle of the entry's own kind holds
KindsApart ==
    /\ \A kind \in Kinds, key \in Keys :
          /\ MetadataOf(metrics, kind, key) # None
                => MetadataOf(metrics', kind, key) # None
          /\ HandleOf(registry, kind, key) # None
                => HandleOf(registry', kind, key) # None
    /\ \A t \in DebugThreads :
          /\ (dthr[t].pc = "d_update" /\ dthr'[t].pc = "idle")
                => /\ OthersUntouched(dthr[t].kind, dthr[t].key)
                   /\ MetadataOf(metrics', dthr[t].kind, dthr[t].key)
                         = Some(<<dthr[t].unit, dthr[t].desc>>)
          /\ (dthr[t].pc = "idle" /\ dthr'[t].pc = "holding")
                => /\ OthersUntouched(dthr'[t].kind, dthr'[t].key)
                   /\ HandleOf(registry', dthr'[t].kind, dthr'[t].key) # None
          /\ (dthr[t].pc = "s_loop" /\ dthr'[t].pc = "s_loop")
                => \A kind \in Kinds, key \in Keys :
                      (<<kind, key>> \in DOMAIN dthr'[t].snap
                          /\ <<kind, key>> \notin DOMAIN dthr[t].snap)
                         => Some(dthr'[t].snap[<<kind, key>>].value)
                               = HandleOf(registry, kind, key)
    /\ nUpdate' > nUpdate
          => \E t \in DebugThreads :
                /\ dthr[t].pc = "holding"
                /\ OthersUntouched(dthr[t].kind, dthr[t].key)

\* a snapshot() that returns reports every metric that was described and
\* registered when it started, under its own kind
ReportsEachKind ==
    \A t \in DebugThreads :
        SnapDone(t)
           => \A kind \in Kinds, key \in Keys :
                 (MetadataOf(dthr[t].meta, kind, key) # None
                     /\ <<kind, key>> \in dthr[t].regAtStart)
                    => /\ <<kind, key>> \in DOMAIN dthr[t].snap
                       /\ dthr[t].snap[<<kind, key>>].value.kind = kind

\* C19: a counter and a gauge of the same Key are two metrics: each
\* describe and register makes or keeps an entry and a handle of its own
\* kind, a describe, register or update of one changes neither metadata
\* nor value of the other, and a snapshot reports both, each with the
\* value of the handle of its own kind.
C19_KindsAreIndependent == []ReportsEachKind /\ [][KindsApart]_vars

\* a snapshot has reported the counter and the gauge of Key k1 with
\* different metadata and the values of their own handles
C19_Witness ==
    \E t \in DebugThreads :
        /\ SnapDone(t)
        /\ <<"Counter", "k1">> \in DOMAIN dthr[t].snap
        /\ <<"Gauge", "k1">> \in DOMAIN dthr[t].snap
        /\ dthr[t].snap[<<"Counter", "k1">>].value = DebugCounter(1)
        /\ dthr[t].snap[<<"Gauge", "k1">>].value
              = DebugGauge(from_bits(NegInfBits))
        /\ dthr[t].snap[<<"Counter", "k1">>].unit = None
        /\ dthr[t].snap[<<"Gauge", "k1">>].unit = Some("U1")

(***************************************************************************)
(* The metadata lock.                                                      *)
(***************************************************************************)
\* where a thread reads the registry's handles: the three captures of the
\* handle maps and the loop over the cloned metadata
HandlePcs == {"s_gauges", "s_histograms", "s_loop"}

\* C20: the thread that holds the metadata lock is cloning the map in
\* snapshot() or updating it in register_metric; a thread capturing or
\* reading handles does not hold it, so a describe_* call waiting for the
\* lock beside threads that only read handles finds it free.
C20_LockOnlyForCloneOrUpdate ==
    \A t \in DebugThreads :
        /\ metricsLock = t => dthr[t].pc \in {"s_clone", "d_update"}
        /\ dthr[t].pc \in HandlePcs => metricsLock # t
        /\ (dthr[t].pc = "d_lock"
               /\ \A u \in DebugThreads \ {t} :
                     dthr[u].pc \notin {"s_clone", "d_update"})
              => ENABLED RegisterMetricLock(t)

\* a snapshot() is about to read the handle of an entry while a describe_*
\* call of another thread holds the lock
C20_Witness ==
    \E t, u \in DebugThreads :
        /\ dthr[t].pc = "s_loop" /\ dthr[t].idx <= Len(dthr[t].meta)
        /\ dthr[u].pc = "d_update" /\ metricsLock = u

====
